---- MODULE Spec2Model ----
(***************************************************************************)
(* PulseCheckpoint runtime: the Checkpoint Manager (idempotent save with   *)
(* retry, verified read, delete) over the S3 storage adapter, the Worker   *)
(* Registry (register, deregister, heartbeat, the sweep of the heartbeat   *)
(* monitor) and the RPC handlers in front of both.                         *)
(*                                                                         *)
(* Strings are sequences of tokens ("/" is a token of its own), so that    *)
(* the key rewriting of the adapter (full_key) and the key recovery of the *)
(* manager (strip_prefix / split_once) are computed, not assumed.          *)
(* Option<T> is a sequence of length 0 (None) or 1 (Some).                 *)
(***************************************************************************)
EXTENDS Integers, Sequences, FiniteSets, TLC

VARIABLES
    path_prefix,        \* S3Storage.path_prefix : Option<String>
    max_attempts,       \* RetryConfig.max_attempts
    checkpoints,        \* CheckpointManager.checkpoints : id -> Checkpoint
    idempotency_keys,   \* CheckpointManager.idempotency_keys : key -> id
    objects,            \* the bucket: object key -> bytes
    saves,              \* the Save calls: position, inputs, locals, result
    deleting,           \* Delete calls suspended before the adapter's delete
    uploaded,           \* history: the successful adapter uploads
    upload_calls,       \* history: adapter upload calls made by each Save
    deleted_ok,         \* history: ids for which a Delete returned Ok
    delete_result,      \* the last Delete's return value
    get_result,         \* the last GetData's return value
    workers,            \* WorkerRegistry.workers : worker_id -> Worker
    now,                \* the wall clock (Utc::now), in seconds
    registering,        \* Register calls between contains_key and insert
    worker_result,      \* the last registry call: number, arguments, return
    rpc_result,         \* the last SaveCheckpoint the handler turned away
    stream,             \* SaveCheckpointStream: the messages received so far
    monitor,            \* the heartbeat monitor task: position, next tick
    shutdown,           \* the value of the shutdown watch channel
    server,             \* main, the gRPC server and the metrics server
    sweep,              \* check_heartbeats in progress: sampled time, position
    ACTIVE_WORKERS      \* the pulse_active_workers gauge

\* the state of the Worker Registry and of the RPC handlers
process_vars == <<monitor, shutdown, server, sweep>>
registry_vars == <<workers, now, registering, worker_result, rpc_result, stream,
                   process_vars, ACTIVE_WORKERS>>

\* the state of the Checkpoint Manager and of the store
manager_vars == <<path_prefix, max_attempts, checkpoints, idempotency_keys, objects,
                  saves, deleting, uploaded, upload_calls, deleted_ok,
                  delete_result, get_result>>

vars == <<manager_vars, registry_vars>>

(***************************** bounds **************************************)
\* Save calls of one behaviour (each draws a fresh checkpoint id).
MaxSaves == 2
\* Largest configured max_attempts tried with concurrent calls.
MaxAttemptsCfg == 2
\* Largest configured max_attempts tried for the retry loop on its own.
MaxRetryAttemptsCfg == 4
\* Granularity of the wall clock of the retry loop, in seconds.
Tick == 30
\* Registry calls of one behaviour.
MaxCalls == 4
\* Messages of one SaveCheckpointStream request.
MaxStreamLen == 2
\* The wall clock of the registry stops here, in seconds.
MaxTime == 120
\* Messages of the SaveCheckpointStream request that is received step by step.
MaxStreamMessages == 3
\* RPCs in flight at the gRPC server at one time.
MaxInflight == 2

(*************************** program constants *****************************)
\* ExponentialBackoff.max_elapsed_time = 60 s
MaxElapsedSecs == 60

(***************************** Option, strings *****************************)
None == <<>>
Some(x) == <<x>>

\* str::strip_prefix
StripPrefix(s, p) ==
    IF Len(s) >= Len(p) /\ SubSeq(s, 1, Len(p)) = p
    THEN Some(SubSeq(s, Len(p) + 1, Len(s)))
    ELSE None

\* str::split_once: split at the FIRST occurrence of c
SplitOnce(s, c) ==
    LET hits == {i \in 1..Len(s) : s[i] = c}
    IN  IF hits = {} THEN None
        ELSE LET i == CHOOSE j \in hits : \A h \in hits : j <= h
             IN  Some(<<SubSeq(s, 1, i - 1), SubSeq(s, i + 1, Len(s))>>)

\* str::trim_end_matches
RECURSIVE TrimEndMatches(_, _)
TrimEndMatches(s, c) ==
    IF Len(s) > 0 /\ s[Len(s)] = c
    THEN TrimEndMatches(SubSeq(s, 1, Len(s) - 1), c)
    ELSE s

(***************************** inputs **************************************)
SaveIds == 1..MaxSaves
WorkerIds == {"w"}
Payloads == {<<"A">>, <<"B">>}
IdempotencyKeys == {"k1"}
KeyArgs == {None} \cup {Some(k) : k \in IdempotencyKeys}
Bucket == "bkt"
PathPrefixes == {None, Some(<<"p">>), Some(<<"p", "/">>)}
RegisterCalls == {1, 2}

(************************* storage adapter *********************************)
\* S3Storage::full_key
full_keyUntrimmed(key) ==
    IF path_prefix = None THEN key
    ELSE path_prefix[1] \o <<"/">> \o key
full_key(key) ==
    IF path_prefix = None THEN key
    ELSE TrimEndMatches(path_prefix[1], "/") \o <<"/">> \o key

S3Scheme == <<"s3:", "/", "/">>

\* the URI S3Storage::upload returns on success
upload_uri(key) == S3Scheme \o <<Bucket, "/">> \o full_key(key)

(************************* checkpoint manager ******************************)
\* compute_sha256: an injective digest of the payload
compute_sha256(data) == <<"sha256">> \o data

\* "chk_" + 12 hex chars of a fresh UUIDv4: one fresh id per Save call
checkpoint_idShared(s) == "chk_" \o ToString(1)
checkpoint_id(s) == "chk_" \o ToString(s)
CheckpointIds == {checkpoint_id(s) : s \in SaveIds}

\* format!("checkpoints/{}/{}/{}.bin", worker_id, date "%Y/%m/%d", id)
storage_keyPerWorker(worker_id, id) ==
    <<"checkpoints", "/", worker_id, "/", "Y", "/", "m", "/", "d", "/", "chk", ".bin">>
storage_key(worker_id, id) ==
    <<"checkpoints", "/", worker_id, "/", "Y", "/", "m", "/", "d", "/", id, ".bin">>

\* the key get_data and delete recover from a storage_path
key_from_pathLenient(storage_path) ==
    LET rest == StripPrefix(storage_path, S3Scheme)
    IN  IF rest = None THEN Some(storage_path)
        ELSE LET parts == SplitOnce(rest[1], "/")
             IN  IF parts = None THEN Some(rest[1]) ELSE Some(parts[1][2])
key_from_path(storage_path) ==
    LET rest == StripPrefix(storage_path, S3Scheme)
    IN  IF rest = None THEN None
        ELSE LET parts == SplitOnce(rest[1], "/")
             IN  IF parts = None THEN None ELSE Some(parts[1][2])

NoCheckpoint ==
    [id |-> "", worker_id |-> "", storage_path |-> <<>>, size_bytes |-> 0,
     checksum |-> <<>>, status |-> "UNSPECIFIED"]

\* the pending record of Save (status Uploading, empty storage_path)
PendingCheckpointWithPath(id, worker_id, data) ==
    [id |-> id, worker_id |-> worker_id, storage_path |-> S3Scheme,
     size_bytes |-> Len(data), checksum |-> compute_sha256(data),
     status |-> "UPLOADING"]
PendingCheckpoint(id, worker_id, data) ==
    [id |-> id, worker_id |-> worker_id, storage_path |-> <<>>,
     size_bytes |-> Len(data), checksum |-> compute_sha256(data),
     status |-> "UPLOADING"]

EmptyMap == [x \in {} |-> x]
Insert(map, k, v) == [x \in DOMAIN map \cup {k} |-> IF x = k THEN v ELSE map[x]]
RemoveNothing(map, k) == map
Remove(map, k) == [x \in DOMAIN map \ {k} |-> map[x]]

IdleSave ==
    [pc |-> "idle", worker_id |-> "", data |-> <<>>, idempotency_key |-> None,
     hit |-> FALSE, attempt |-> 0, elapsed |-> 0, storage_path |-> <<>>,
     result |-> "none", checkpoint |-> NoCheckpoint]

\* the idempotency check of Save: the key is bound and the bound record exists
IdempotentHitNever(key) == FALSE
IdempotentHit(key) ==
    /\ key # None
    /\ key[1] \in DOMAIN idempotency_keys
    /\ idempotency_keys[key[1]] \in DOMAIN checkpoints

Init ==
    /\ path_prefix \in PathPrefixes
    /\ max_attempts \in 1..MaxRetryAttemptsCfg
    /\ checkpoints = EmptyMap
    /\ idempotency_keys = EmptyMap
    /\ objects = EmptyMap
    /\ saves = [s \in SaveIds |-> IdleSave]
    /\ deleting = {}
    /\ uploaded = {}
    /\ upload_calls = [s \in SaveIds |-> 0]
    /\ deleted_ok = {}
    /\ delete_result = [id |-> "", kind |-> "none"]
    /\ get_result = [id |-> "", kind |-> "none", data |-> None,
                     downloaded |-> None, checksum |-> None, object_key |-> None]
    /\ workers = EmptyMap
    /\ now = 0
    /\ registering = [r \in RegisterCalls |-> None]
    /\ worker_result = [n |-> 0, op |-> "none", id |-> "", arg |-> "",
                        kind |-> "none", status |-> "none"]
    /\ rpc_result = [rpc |-> "none", worker_id |-> "", status |-> "none"]
    /\ stream = <<>>
    /\ sweep = [pc |-> "idle", at |-> 0, todo |-> {}, unhealthy_count |-> 0,
                demoted |-> {}]
    /\ ACTIVE_WORKERS = 0
    /\ monitor = [pc |-> "running", next_tick |-> 0]
    /\ shutdown = FALSE
    /\ server = [pc |-> "serving", inflight |-> 0, metrics |-> "running"]

\* CheckpointManager::save, up to the insert of the pending record
SaveBegin(s, worker_id, data, key) ==
    /\ saves[s].pc = "idle"
    /\ \A t \in SaveIds : t < s => saves[t].pc # "idle"
    /\ IF IdempotentHit(key)
       THEN /\ saves' = [saves EXCEPT ![s] =
                   [@ EXCEPT !.pc = "done", !.worker_id = worker_id,
                             !.data = data, !.idempotency_key = key,
                             !.hit = TRUE, !.result = "Ok",
                             !.checkpoint = checkpoints[idempotency_keys[key[1]]]]]
            /\ UNCHANGED checkpoints
       ELSE /\ saves' = [saves EXCEPT ![s] =
                   [@ EXCEPT !.pc = "upload", !.worker_id = worker_id,
                             !.data = data, !.idempotency_key = key]]
            /\ checkpoints' = Insert(checkpoints, checkpoint_id(s),
                                     PendingCheckpoint(checkpoint_id(s), worker_id, data))
    /\ UNCHANGED <<registry_vars, path_prefix, max_attempts, idempotency_keys, objects, deleting,
                   uploaded, upload_calls, deleted_ok, delete_result, get_result>>

\* the closure of upload_with_retry: an upload failure is permanent from
\* attempt max_attempts on, transient before
IsPermanentOffByOne(attempt) == attempt > max_attempts
IsPermanent(attempt) == attempt >= max_attempts

\* ExponentialBackoff::next_backoff with max_elapsed_time = 60 s: the delay
\* to sleep before the next attempt, or None when the budget is spent
next_backoff_unbounded(elapsed, interval) == Some(interval)
next_backoff(elapsed, interval) ==
    IF elapsed > MaxElapsedSecs THEN None
    ELSE IF elapsed + interval <= MaxElapsedSecs THEN Some(interval)
    ELSE None

\* upload_with_retry returns an error, and save with it: the locals of the
\* loop (attempt, the backoff's clock) are gone
FailThenBind(sv) ==
    IF sv.idempotency_key = None
    THEN [sv EXCEPT !.pc = "done", !.result = "UploadFailed",
                    !.attempt = 0, !.elapsed = 0]
    ELSE [sv EXCEPT !.pc = "bind", !.attempt = 0, !.elapsed = 0]
Fail(sv) == [sv EXCEPT !.pc = "done", !.result = "UploadFailed",
                       !.attempt = 0, !.elapsed = 0]

\* one attempt of the retry loop: attempt += 1, storage.upload(key, data),
\* which takes dur seconds and succeeds (ok) or fails.
\* counted: whether the call is counted in the history upload_calls
UploadAttempt(s, dur, ok, counted) ==
    LET sv  == saves[s]
        key == storage_key(sv.worker_id, checkpoint_id(s))
        n   == sv.attempt + 1
        at  == [sv EXCEPT !.attempt = n, !.elapsed = @ + dur]
    IN  /\ sv.pc = "upload"
        /\ upload_calls' = IF counted THEN [upload_calls EXCEPT ![s] = @ + 1]
                            ELSE upload_calls
        /\ IF ok
           THEN /\ objects' = Insert(objects, full_key(key), sv.data)
                /\ uploaded' = uploaded \cup
                       {[id |-> checkpoint_id(s), key |-> key,
                         object_key |-> full_key(key), data |-> sv.data,
                         uri |-> upload_uri(key)]}
                /\ saves' = [saves EXCEPT ![s] =
                       [at EXCEPT !.pc = "uploaded", !.storage_path = upload_uri(key),
                                  !.attempt = 0, !.elapsed = 0]]
           ELSE /\ UNCHANGED <<objects, uploaded>>
                /\ saves' = [saves EXCEPT ![s] =
                       IF IsPermanent(n) THEN Fail(at)
                       ELSE [at EXCEPT !.pc = "backoff"]]
        /\ UNCHANGED <<registry_vars, path_prefix, max_attempts, checkpoints, idempotency_keys,
                       deleting, deleted_ok, delete_result, get_result>>

\* a transient failure: backoff::future::retry asks next_backoff and either
\* sleeps the delay and retries, or gives up with the error
Backoff(s, interval) ==
    LET sv == saves[s]
        d  == next_backoff(sv.elapsed, interval)
    IN  /\ sv.pc = "backoff"
        /\ saves' = [saves EXCEPT ![s] =
               IF d = None THEN Fail(sv)
               ELSE [sv EXCEPT !.pc = "upload", !.elapsed = @ + d[1]]]
        /\ UNCHANGED <<registry_vars, path_prefix, max_attempts, checkpoints, idempotency_keys,
                       objects, deleting, uploaded, upload_calls, deleted_ok,
                       delete_result, get_result>>

\* the record Save writes after a successful upload
CompletedCheckpointStatusKept(s) ==
    [PendingCheckpoint(checkpoint_id(s), saves[s].worker_id, saves[s].data)
        EXCEPT !.storage_path = saves[s].storage_path]
CompletedCheckpoint(s) ==
    [PendingCheckpoint(checkpoint_id(s), saves[s].worker_id, saves[s].data)
        EXCEPT !.storage_path = saves[s].storage_path, !.status = "COMPLETED"]

\* save: the second insert into checkpoints (status Completed); without an
\* idempotency key the call returns here
SaveComplete(s) ==
    /\ saves[s].pc = "uploaded"
    /\ checkpoints' = Insert(checkpoints, checkpoint_id(s), CompletedCheckpoint(s))
    /\ saves' = [saves EXCEPT ![s] =
           IF @.idempotency_key = None
           THEN [@ EXCEPT !.pc = "done", !.result = "Ok",
                          !.checkpoint = CompletedCheckpoint(s)]
           ELSE [@ EXCEPT !.pc = "bind"]]
    /\ UNCHANGED <<registry_vars, path_prefix, max_attempts, idempotency_keys, objects, deleting,
                   uploaded, upload_calls, deleted_ok, delete_result, get_result>>

\* save: the insert into idempotency_keys, and the return
SaveBind(s) ==
    /\ saves[s].pc = "bind"
    /\ idempotency_keys' =
           Insert(idempotency_keys, saves[s].idempotency_key[1], checkpoint_id(s))
    /\ saves' = [saves EXCEPT ![s] =
           [@ EXCEPT !.pc = "done", !.result = "Ok",
                     !.checkpoint = CompletedCheckpoint(s)]]
    /\ UNCHANGED <<registry_vars, path_prefix, max_attempts, checkpoints, objects, deleting,
                   uploaded, upload_calls, deleted_ok, delete_result, get_result>>

\* what a Delete call returns, which only an observed call records
Returned(id, kind, observed) ==
    /\ delete_result' = IF observed THEN [id |-> id, kind |-> kind] ELSE delete_result
    /\ deleted_ok' = IF observed /\ kind = "Ok" THEN deleted_ok \cup {id} ELSE deleted_ok

\* CheckpointManager::delete up to the adapter call: the record is removed;
\* without a parsable storage_path the call returns Ok at once
Delete(id, observed) ==
    /\ IF id \notin DOMAIN checkpoints
       THEN /\ Returned(id, "NotFound", observed)
            /\ UNCHANGED <<checkpoints, deleting>>
       ELSE LET key == key_from_path(checkpoints[id].storage_path)
            IN  /\ checkpoints' = Remove(checkpoints, id)
                /\ IF key = None
                   THEN /\ Returned(id, "Ok", observed)
                        /\ UNCHANGED deleting
                   ELSE /\ deleting' = deleting \cup {[id |-> id, key |-> key[1]]}
                        /\ UNCHANGED <<delete_result, deleted_ok>>
    /\ UNCHANGED <<registry_vars, path_prefix, max_attempts, idempotency_keys, objects, saves,
                   uploaded, upload_calls, get_result>>

\* delete: storage.delete(storage_key) returns, and with it the call
DeleteStorage(d, ok, observed) ==
    /\ d \in deleting
    /\ deleting' = deleting \ {d}
    /\ IF ok
       THEN /\ objects' = Remove(objects, full_key(d.key))
            /\ Returned(d.id, "Ok", observed)
       ELSE /\ Returned(d.id, "StorageError", observed)
            /\ UNCHANGED objects
    /\ UNCHANGED <<registry_vars, path_prefix, max_attempts, checkpoints, idempotency_keys, saves,
                   uploaded, upload_calls, get_result>>

\* get_data: the comparison of the recomputed digest with the recorded one
ChecksumMatchesUnverified(data, checksum) == TRUE
ChecksumMatches(data, checksum) == compute_sha256(data) = checksum

GetResult(id, kind, data, downloaded, checksum, object_key) ==
    [id |-> id, kind |-> kind, data |-> data, downloaded |-> downloaded,
     checksum |-> checksum, object_key |-> object_key]

\* CheckpointManager::get_data (the record's guard is held across the
\* download, so the call is one step); ok: the adapter's download succeeds
GetData(id, ok) ==
    /\ get_result' =
         IF id \notin DOMAIN checkpoints
         THEN GetResult(id, "NotFound", None, None, None, None)
         ELSE LET cp  == checkpoints[id]
                  key == key_from_path(cp.storage_path)
              IN  IF key = None
                  THEN GetResult(id, "InvalidData", None, None, Some(cp.checksum), None)
                  ELSE LET fk == full_key(key[1])
                       IN  IF ~ok
                           THEN GetResult(id, "DownloadFailed", None, None,
                                          Some(cp.checksum), Some(fk))
                           ELSE IF fk \notin DOMAIN objects
                           THEN GetResult(id, "ObjectNotFound", None, None,
                                          Some(cp.checksum), Some(fk))
                           ELSE IF ~ChecksumMatches(objects[fk], cp.checksum)
                           THEN GetResult(id, "InvalidData", None, Some(objects[fk]),
                                          Some(cp.checksum), Some(fk))
                           ELSE GetResult(id, "Ok", Some(objects[fk]), Some(objects[fk]),
                                          Some(cp.checksum), Some(fk))
    /\ UNCHANGED <<registry_vars, path_prefix, max_attempts, checkpoints, idempotency_keys, objects,
                   saves, deleting, uploaded, upload_calls, deleted_ok, delete_result>>

\* out of band: somebody overwrites a stored blob
Corrupt(k, data) ==
    /\ k \in DOMAIN objects
    /\ objects[k] # data
    /\ objects' = [objects EXCEPT ![k] = data]
    /\ UNCHANGED <<registry_vars, path_prefix, max_attempts, checkpoints, idempotency_keys, saves,
                   deleting, uploaded, upload_calls, deleted_ok, delete_result,
                   get_result>>

(***************************** RPC surface *********************************)
\* PulseServiceImpl::save_checkpoint: the status of a Save result
save_checkpoint_status(result) ==
    IF result = "Ok" THEN "OK"
    ELSE IF result = "IdempotentDuplicate" THEN "AlreadyExists"
    ELSE "Internal"

\* PulseServiceImpl::get_checkpoint with include_data, on a present record
get_checkpoint_status(kind) == IF kind = "Ok" THEN "OK" ELSE "Internal"

(***************************** worker registry *****************************)
\* WorkerRegistry::new: heartbeat_timeout = 90 s, check_interval = 30 s
HeartbeatTimeoutSecs == 90
CheckIntervalSecs == 30

\* the worker ids, label maps and status fields a request may carry
RequestWorkerIds == {"", "w", "w2"}
WorkerKeys == RequestWorkerIds \ {""}
Labels == {"l1", "l2"}
WorkerStatuses == {"UNSPECIFIED", "ACTIVE", "UNHEALTHY", "DRAINING", "STOPPED"}
RequestStatuses == WorkerStatuses \cup {"OUT_OF_RANGE"}

\* Worker::new at time t
Worker_newBackdated(id, metadata, t) ==
    [id |-> id, metadata |-> metadata, status |-> "ACTIVE",
     registered_at |-> t, last_heartbeat |-> t - 1]
Worker_new(id, metadata, t) ==
    [id |-> id, metadata |-> metadata, status |-> "ACTIVE",
     registered_at |-> t, last_heartbeat |-> t]

\* WorkerRegistry::exists, get, list, total_count, active_count
existsAlways(worker_id) == TRUE
exists(worker_id) == worker_id \in DOMAIN workers
get(worker_id) ==
    IF worker_id \in DOMAIN workers THEN Some(workers[worker_id]) ELSE None
listActiveOnly(status_filter) ==
    {workers[k] : k \in {x \in DOMAIN workers : workers[x].status = "ACTIVE"}}
list(status_filter) ==
    {workers[k] : k \in {x \in DOMAIN workers :
                            status_filter = None \/ workers[x].status = status_filter[1]}}
total_count == Cardinality(DOMAIN workers)
active_count == Cardinality({k \in DOMAIN workers : workers[k].status = "ACTIVE"})

\* PulseServiceImpl::register_worker, deregister_worker, heartbeat: the
\* status of a registry result
register_worker_status(kind) ==
    IF kind = "Ok" THEN "OK"
    ELSE IF kind = "AlreadyExists" THEN "AlreadyExists"
    ELSE "Internal"
worker_rpc_status(kind) ==
    IF kind = "Ok" THEN "OK"
    ELSE IF kind = "NotFound" THEN "NotFound"
    ELSE "Internal"

\* PulseServiceImpl::heartbeat: the Option<WorkerStatus> handed to the
\* registry for the status field of the request
heartbeat_status_unfiltered(req_status) ==
    IF req_status \in WorkerStatuses THEN Some(req_status) ELSE Some("ACTIVE")
heartbeat_status(req_status) ==
    IF req_status # "UNSPECIFIED"
    THEN IF req_status \in WorkerStatuses THEN Some(req_status) ELSE Some("ACTIVE")
    ELSE None

\* DashMap::contains_key, the presence check of register
contains_keyNever(map, k) == FALSE
contains_key(map, k) == k \in DOMAIN map

\* what a registry call returns: the calls are numbered
WorkerResult(op, id, arg, kind, status) ==
    [n |-> worker_result.n + 1, op |-> op, id |-> id, arg |-> arg,
     kind |-> kind, status |-> status]

Registering == {r \in RegisterCalls : registering[r] # None}
CallAllowed == worker_result.n + Cardinality(Registering) < MaxCalls

\* WorkerRegistry::register up to the presence check: the empty id and a
\* present id are turned away, otherwise the call goes on to its insert
RegisterCheck(r, worker_id, metadata) ==
    LET worker == Worker_new(worker_id, metadata, now)
    IN  /\ registering[r] = None
        /\ CallAllowed
        /\ IF worker_id = ""
           THEN /\ worker_result' = WorkerResult("register", worker_id, metadata,
                        "InvalidWorkerId", register_worker_status("InvalidWorkerId"))
                /\ UNCHANGED registering
           ELSE IF contains_key(workers, worker_id)
           THEN /\ worker_result' = WorkerResult("register", worker_id, metadata,
                        "AlreadyExists", register_worker_status("AlreadyExists"))
                /\ UNCHANGED registering
           ELSE /\ registering' = [registering EXCEPT ![r] = Some(worker)]
                /\ UNCHANGED worker_result
        /\ UNCHANGED <<workers, now, rpc_result, manager_vars, stream, process_vars,
                       ACTIVE_WORKERS>>

\* register: the insert, and the return
RegisterInsert(r) ==
    /\ registering[r] # None
    /\ LET worker == registering[r][1]
       IN  /\ workers' = Insert(workers, worker.id, worker)
           /\ worker_result' = WorkerResult("register", worker.id, worker.metadata,
                                            "Ok", register_worker_status("Ok"))
    /\ ACTIVE_WORKERS' = ACTIVE_WORKERS + 1
    /\ registering' = [registering EXCEPT ![r] = None]
    /\ UNCHANGED <<now, rpc_result, manager_vars, stream, process_vars>>

\* WorkerRegistry::deregister
Deregister(worker_id) ==
    /\ CallAllowed
    /\ IF worker_id \in DOMAIN workers
       THEN /\ workers' = Remove(workers, worker_id)
            /\ ACTIVE_WORKERS' = ACTIVE_WORKERS - 1
            /\ worker_result' = WorkerResult("deregister", worker_id, "",
                                             "Ok", worker_rpc_status("Ok"))
       ELSE /\ UNCHANGED <<workers, ACTIVE_WORKERS>>
            /\ worker_result' = WorkerResult("deregister", worker_id, "",
                                             "NotFound", worker_rpc_status("NotFound"))
    /\ UNCHANGED <<now, registering, rpc_result, manager_vars, stream, process_vars>>

\* heartbeat: if let Some(s) = status { worker.status = s }
set_statusToggle(current, status) ==
    IF status = None THEN current
    ELSE IF current # status[1] THEN status[1] ELSE "ACTIVE"
set_status(current, status) == IF status # None THEN status[1] ELSE current

\* the body of WorkerRegistry::heartbeat on a present worker, at time t
HeartbeatWorkerEpoch(worker, status, t) ==
    [worker EXCEPT !.last_heartbeat = 0, !.status = set_status(@, status)]
HeartbeatWorker(worker, status, t) ==
    [worker EXCEPT !.last_heartbeat = t, !.status = set_status(@, status)]

\* PulseServiceImpl::heartbeat over WorkerRegistry::heartbeat
Heartbeat(worker_id, req_status) ==
    /\ CallAllowed
    /\ IF worker_id \in DOMAIN workers
       THEN /\ workers' = [workers EXCEPT ![worker_id] =
                   HeartbeatWorker(@, heartbeat_status(req_status), now)]
            /\ worker_result' = WorkerResult("heartbeat", worker_id, req_status,
                                             "Ok", worker_rpc_status("Ok"))
       ELSE /\ UNCHANGED workers
            /\ worker_result' = WorkerResult("heartbeat", worker_id, req_status,
                                             "NotFound", worker_rpc_status("NotFound"))
    /\ UNCHANGED <<now, registering, rpc_result, manager_vars, stream, process_vars,
                   ACTIVE_WORKERS>>

\* the wall clock moves on
AdvanceClock ==
    /\ now + Tick <= MaxTime
    /\ now' = now + Tick
    /\ UNCHANGED <<workers, registering, worker_result, rpc_result, manager_vars, stream,
                   process_vars, ACTIVE_WORKERS>>

\* check_heartbeats: let elapsed = now - worker.last_heartbeat
elapsedSinceRegistration(worker, at) == at - worker.registered_at
elapsed(worker, at) == at - worker.last_heartbeat

\* the body of the loop of check_heartbeats for one entry
check_heartbeatInclusive(worker, at) ==
    IF elapsed(worker, at) >= HeartbeatTimeoutSecs /\ worker.status = "ACTIVE"
    THEN [worker EXCEPT !.status = "UNHEALTHY"]
    ELSE worker
check_heartbeat(worker, at) ==
    IF elapsed(worker, at) > HeartbeatTimeoutSecs /\ worker.status = "ACTIVE"
    THEN [worker EXCEPT !.status = "UNHEALTHY"]
    ELSE worker

\* the map after one sweep that sampled the clock at time at
sweptNothing(at) == workers
swept(at) == [k \in DOMAIN workers |-> check_heartbeat(workers[k], at)]

\* check_heartbeats: the number of workers the sweep demotes
unhealthy_count(at) ==
    Cardinality({k \in DOMAIN workers : check_heartbeat(workers[k], at) # workers[k]})

\* WorkerRegistry::check_heartbeats, one sweep over the map
check_heartbeats ==
    /\ workers' = swept(now)
    /\ ACTIVE_WORKERS' = ACTIVE_WORKERS - unhealthy_count(now)
    /\ UNCHANGED <<now, registering, worker_result, rpc_result, manager_vars, stream, process_vars>>

\* check_heartbeats entry by entry: iter_mut walks the shards of the map and
\* holds the lock of the entry it is on; the entry under key k after the body
\* of the loop ran on it (a key with no entry is passed over)
visitTouching(map, k, at) ==
    IF k \in DOMAIN map
    THEN [map EXCEPT ![k] = [check_heartbeat(@, at) EXCEPT !.last_heartbeat = at]]
    ELSE map
visit(map, k, at) ==
    IF k \in DOMAIN map THEN [map EXCEPT ![k] = check_heartbeat(@, at)] ELSE map

\* check_heartbeats: let now = Utc::now(), and the iterator is created
SweepBegin ==
    /\ sweep.pc = "idle"
    /\ sweep' = [pc |-> "iterating", at |-> now, todo |-> WorkerKeys,
                 unhealthy_count |-> 0, demoted |-> {}]
    /\ UNCHANGED <<workers, now, registering, worker_result, rpc_result, manager_vars,
                   stream, monitor, shutdown, server, ACTIVE_WORKERS>>

\* check_heartbeats: the iterator passes key k
SweepVisit(k) ==
    /\ sweep.pc = "iterating"
    /\ k \in sweep.todo
    /\ workers' = visit(workers, k, sweep.at)
    /\ LET hit == k \in DOMAIN workers /\ check_heartbeat(workers[k], sweep.at) # workers[k]
       IN  sweep' = [sweep EXCEPT !.todo = @ \ {k},
                                  !.unhealthy_count = IF hit THEN @ + 1 ELSE @,
                                  !.demoted = IF hit THEN @ \cup {k} ELSE @]
    /\ UNCHANGED <<now, registering, worker_result, rpc_result, manager_vars,
                   stream, monitor, shutdown, server, ACTIVE_WORKERS>>

\* check_heartbeats: the loop is over, the gauge is reduced by unhealthy_count
SweepEnd ==
    /\ sweep.pc = "iterating"
    /\ sweep.todo = {}
    /\ sweep' = [sweep EXCEPT !.pc = "idle"]
    /\ ACTIVE_WORKERS' = ACTIVE_WORKERS - sweep.unhealthy_count
    /\ UNCHANGED <<workers, now, registering, worker_result, rpc_result, manager_vars,
                   stream, monitor, shutdown, server>>

(***************************** heartbeat monitor ***************************)
\* start_heartbeat_monitor, the tick branch of the select: the interval's
\* deadline has passed (the first one is the start of the task), the next
\* deadline is one period after it, and check_heartbeats runs
MonitorTick ==
    /\ monitor.pc = "running"
    /\ now >= monitor.next_tick
    /\ monitor' = [monitor EXCEPT !.next_tick = @ + CheckIntervalSecs]
    /\ workers' = swept(now)
    /\ ACTIVE_WORKERS' = ACTIVE_WORKERS - unhealthy_count(now)
    /\ UNCHANGED <<now, registering, worker_result, rpc_result, manager_vars, stream,
                   shutdown, server, sweep>>

\* start_heartbeat_monitor, the shutdown branch of the select: the watch
\* channel holds a value the receiver has not seen, and it is true
MonitorShutdown ==
    /\ monitor.pc = "running"
    /\ shutdown
    /\ monitor' = [monitor EXCEPT !.pc = "exited"]
    /\ UNCHANGED <<workers, now, registering, worker_result, rpc_result, manager_vars,
                   stream, shutdown, server, sweep, ACTIVE_WORKERS>>

\* main: shutdown_signal() returns in the future handed to
\* serve_with_shutdown, which sends true on the watch channel and resolves:
\* the gRPC server stops accepting
ShutdownSignal ==
    /\ ~shutdown
    /\ shutdown' = TRUE
    /\ server' = [server EXCEPT !.pc = "draining"]
    /\ UNCHANGED <<workers, now, registering, worker_result, rpc_result, manager_vars,
                   stream, monitor, sweep, ACTIVE_WORKERS>>

(******************************* the process *******************************)
\* the gRPC server accepts an RPC (only while it is serving)
RpcArrive ==
    /\ server.pc = "serving"
    /\ server.inflight < MaxInflight
    /\ server' = [server EXCEPT !.inflight = @ + 1]
    /\ UNCHANGED <<workers, now, registering, worker_result, rpc_result, manager_vars,
                   stream, monitor, shutdown, sweep, ACTIVE_WORKERS>>

\* an RPC in flight returns
RpcComplete ==
    /\ server.inflight > 0
    /\ server' = [server EXCEPT !.inflight = @ - 1]
    /\ UNCHANGED <<workers, now, registering, worker_result, rpc_result, manager_vars,
                   stream, monitor, shutdown, sweep, ACTIVE_WORKERS>>

\* main: grpc_server.await returns, which serve_with_shutdown does once the
\* shutdown future has resolved and the RPCs in flight have completed
GrpcDrained ==
    /\ server.pc = "draining"
    /\ server.inflight = 0
    /\ server' = [server EXCEPT !.pc = "joining"]
    /\ UNCHANGED <<workers, now, registering, worker_result, rpc_result, manager_vars,
                   stream, monitor, shutdown, sweep, ACTIVE_WORKERS>>

\* MetricsServer::run: shutdown.changed() resolves and the server, whose
\* requests are answered without waiting, ends
MetricsShutdown ==
    /\ server.metrics = "running"
    /\ shutdown
    /\ server' = [server EXCEPT !.metrics = "exited"]
    /\ UNCHANGED <<workers, now, registering, worker_result, rpc_result, manager_vars,
                   stream, monitor, shutdown, sweep, ACTIVE_WORKERS>>

\* main: tokio::join!(metrics_handle, heartbeat_handle) is complete
join_readyEither == server.metrics = "exited" \/ monitor.pc = "exited"
join_ready == server.metrics = "exited" /\ monitor.pc = "exited"

\* main: the join of the background tasks returns, and main with it
MainExit ==
    /\ server.pc = "joining"
    /\ join_ready
    /\ server' = [server EXCEPT !.pc = "exited"]
    /\ UNCHANGED <<workers, now, registering, worker_result, rpc_result, manager_vars,
                   stream, monitor, shutdown, sweep, ACTIVE_WORKERS>>

(************************* checkpoint RPC handlers *************************)
\* the idempotency_key field of a request: the empty string is no key
RequestKeys == {""} \cup IdempotencyKeys
idempotency_key_arg(k) == IF k = "" THEN None ELSE Some(k)

\* a SaveCheckpoint call the handler turned away
Rejected(rpc, worker_id, status) ==
    /\ rpc_result' = [rpc |-> rpc, worker_id |-> worker_id, status |-> status]
    /\ UNCHANGED <<workers, now, registering, worker_result, manager_vars, stream,
                   process_vars, ACTIVE_WORKERS>>

\* PulseServiceImpl::save_checkpoint up to the pending record of Save
save_checkpoint(s, worker_id, data, req_key) ==
    /\ saves[s].pc = "idle"
    /\ IF ~exists(worker_id)
       THEN Rejected("save_checkpoint", worker_id, "FailedPrecondition")
       ELSE SaveBegin(s, worker_id, data, idempotency_key_arg(req_key))

\* the messages of a SaveCheckpointStream request
StreamMessages ==
    [type : {"Header"}, worker_id : WorkerKeys, idempotency_key : RequestKeys,
     bytes : {<<>>}]
    \cup [type : {"Chunk"}, worker_id : {""}, idempotency_key : {""},
          bytes : Payloads]
Streams == UNION {[1..n -> StreamMessages] : n \in 0..MaxStreamLen}

\* save_checkpoint_stream, the receive loop: the last Header is kept, the
\* Chunks are appended in arrival order
RECURSIVE stream_header(_)
stream_header(messages) ==
    IF messages = <<>> THEN None
    ELSE LET last == messages[Len(messages)]
         IN  IF last.type = "Header" THEN Some(last)
             ELSE stream_header(SubSeq(messages, 1, Len(messages) - 1))
RECURSIVE stream_dataReversed(_)
stream_dataReversed(messages) ==
    IF messages = <<>> THEN <<>>
    ELSE stream_dataReversed(Tail(messages))
         \o (IF Head(messages).type = "Chunk" THEN Head(messages).bytes ELSE <<>>)
RECURSIVE stream_data(_)
stream_data(messages) ==
    IF messages = <<>> THEN <<>>
    ELSE (IF Head(messages).type = "Chunk" THEN Head(messages).bytes ELSE <<>>)
         \o stream_data(Tail(messages))

\* PulseServiceImpl::save_checkpoint_stream up to the pending record of Save
save_checkpoint_stream(s, messages) ==
    LET header == stream_header(messages)
    IN  /\ saves[s].pc = "idle"
        /\ IF header = None
           THEN Rejected("save_checkpoint_stream", "", "InvalidArgument")
           ELSE IF ~exists(header[1].worker_id)
           THEN Rejected("save_checkpoint_stream", header[1].worker_id,
                         "FailedPrecondition")
           ELSE SaveBegin(s, header[1].worker_id, stream_data(messages),
                          idempotency_key_arg(header[1].idempotency_key))

\* the SaveCheckpointStream call s is still in its receive loop
StreamOpen(s) ==
    /\ saves[s].pc = "idle"
    /\ rpc_result.rpc # "save_checkpoint_stream"

\* save_checkpoint_stream, one turn of the receive loop: stream.next()
\* yields a message
StreamRecv(s, msg) ==
    /\ StreamOpen(s)
    /\ Len(stream) < MaxStreamMessages
    /\ stream' = Append(stream, msg)
    /\ UNCHANGED <<workers, now, registering, worker_result, rpc_result, manager_vars,
                   process_vars, ACTIVE_WORKERS>>

\* save_checkpoint_stream, the receive loop: stream.next() yields an error,
\* which `chunk?` returns to the client
StreamError(s) ==
    /\ StreamOpen(s)
    /\ Rejected("save_checkpoint_stream", "", "StreamError")

\* save_checkpoint_stream: stream.next() yields None, the loop ends and the
\* handler goes on with what it received
StreamEnd(s) ==
    /\ StreamOpen(s)
    /\ save_checkpoint_stream(s, stream)

(*************************** specifications ********************************)
SaveStep(S, Durs, counted) ==
    \E s \in S :
        \/ \E w \in WorkerIds, data \in Payloads, key \in KeyArgs :
               SaveBegin(s, w, data, key)
        \/ \E dur \in Durs, ok \in BOOLEAN : UploadAttempt(s, dur, ok, counted)
        \/ \E interval \in Durs : Backoff(s, interval)
        \/ SaveComplete(s)
        \/ SaveBind(s)

DeleteStep(observed) ==
    \/ \E id \in CheckpointIds : Delete(id, observed)
    \/ \E d \in deleting, ok \in BOOLEAN : DeleteStorage(d, ok, observed)

\* Saves and Deletes interleaved, their return values and upload counts not
\* recorded; every delay is shorter than a clock tick
Next == SaveStep(SaveIds, {0}, FALSE) \/ DeleteStep(FALSE)

InitConcurrent == Init /\ path_prefix = None /\ max_attempts <= MaxAttemptsCfg

InitRead == Init /\ max_attempts <= MaxAttemptsCfg

Spec == InitConcurrent /\ [][Next]_vars

\* the steps of Save s that need no input from outside the process
SaveProgress(s, Durs) ==
    \/ \E dur \in Durs, ok \in BOOLEAN : UploadAttempt(s, dur, ok, TRUE)
    \/ \E interval \in Durs : Backoff(s, interval)
    \/ SaveComplete(s)
    \/ SaveBind(s)

\* Saves, Deletes, reads and out-of-band writes, with the return values of
\* Delete and GetData observed
ReadStep ==
    \/ \E id \in CheckpointIds, ok \in BOOLEAN : GetData(id, ok)
    \/ \E k \in DOMAIN objects, data \in Payloads : Corrupt(k, data)

NextRead == SaveStep({1}, {0}, FALSE) \/ DeleteStep(TRUE) \/ ReadStep

SpecRead == InitRead /\ [][NextRead]_vars

\* the retry loop with the wall clock: an upload and a backoff sleep take
\* less than a tick or a tick; every started Save keeps being scheduled and
\* every adapter call returns
InitRetry == Init /\ path_prefix = None

NextRetry == SaveStep({1}, {0, Tick}, TRUE)

SpecRetry ==
    /\ InitRetry /\ [][NextRetry]_vars
    /\ WF_vars(SaveProgress(1, {0, Tick}))

\* the Worker Registry on its own: registry calls by concurrent clients, the
\* wall clock, and the sweeps of the heartbeat monitor
RegistryStep(R) ==
    \/ \E r \in R, id \in RequestWorkerIds, metadata \in Labels :
           RegisterCheck(r, id, metadata)
    \/ \E r \in R : RegisterInsert(r)
    \/ \E id \in WorkerKeys : Deregister(id)
    \/ \E id \in WorkerKeys, s \in RequestStatuses : Heartbeat(id, s)
    \/ AdvanceClock
    \/ check_heartbeats

\* one Register call at a time
NextRegistry == RegistryStep({1})

InitRegistry == Init /\ path_prefix = None /\ max_attempts = 1

SpecRegistry == InitRegistry /\ [][NextRegistry]_vars

\* two Register calls in flight at once for one worker id, each carrying its
\* own labels, next to Deregister, Heartbeat and the clock
NextRace ==
    \/ \E r \in RegisterCalls, metadata \in Labels : RegisterCheck(r, "w", metadata)
    \/ \E r \in RegisterCalls : RegisterInsert(r)
    \/ Deregister("w")
    \/ \E s \in {"UNSPECIFIED", "DRAINING"} : Heartbeat("w", s)
    \/ AdvanceClock

SpecRace == InitRegistry /\ [][NextRace]_vars

\* a sweep that goes entry by entry, interleaved with the registry calls
NextSweep ==
    \/ \E id \in WorkerKeys : RegisterCheck(1, id, "l1")
    \/ RegisterInsert(1)
    \/ \E id \in WorkerKeys : Deregister(id)
    \/ \E id \in WorkerKeys, s \in {"UNSPECIFIED", "ACTIVE"} : Heartbeat(id, s)
    \/ AdvanceClock
    \/ SweepBegin
    \/ \E k \in WorkerKeys : SweepVisit(k)
    \/ SweepEnd

SpecSweep == InitRegistry /\ [][NextSweep]_vars

\* one SaveCheckpointStream call received message by message, while the
\* worker "w" registers; the Save it starts runs to its end
NextStream ==
    \/ \E r \in {1} : RegisterCheck(r, "w", "l1")
    \/ \E r \in {1} : RegisterInsert(r)
    \/ \E msg \in StreamMessages : StreamRecv(1, msg)
    \/ StreamError(1)
    \/ StreamEnd(1)
    \/ SaveProgress(1, {0})

InitStream == Init /\ path_prefix = None /\ max_attempts = 2

SpecStream == InitStream /\ [][NextStream]_vars

\* the heartbeat monitor beside the registry: clients register, heartbeat
\* and deregister, the clock moves on, the monitor sweeps at its ticks until
\* the shutdown signal reaches it; the monitor task keeps being scheduled
\* and time passes
MonitorStatuses == {"UNSPECIFIED", "DRAINING"}

NextMonitor ==
    \/ \E r \in {1}, id \in WorkerKeys : RegisterCheck(r, id, "l1")
    \/ \E r \in {1} : RegisterInsert(r)
    \/ \E id \in WorkerKeys : Deregister(id)
    \/ \E id \in WorkerKeys, s \in MonitorStatuses : Heartbeat(id, s)
    \/ AdvanceClock
    \/ MonitorTick
    \/ MonitorShutdown
    \/ ShutdownSignal

SpecMonitor ==
    /\ InitRegistry /\ [][NextMonitor]_vars
    /\ WF_vars(MonitorTick) /\ WF_vars(MonitorShutdown) /\ WF_vars(AdvanceClock)

\* the process from start to exit: RPCs arrive and complete, the monitor
\* sweeps at its ticks, the shutdown signal arrives at some time; every task
\* keeps being scheduled and every RPC in flight returns
NextShutdown ==
    \/ RpcArrive
    \/ RpcComplete
    \/ AdvanceClock
    \/ MonitorTick
    \/ MonitorShutdown
    \/ ShutdownSignal
    \/ MetricsShutdown
    \/ GrpcDrained
    \/ MainExit

SpecShutdown ==
    /\ InitRegistry /\ [][NextShutdown]_vars
    /\ WF_vars(RpcComplete) /\ WF_vars(MonitorShutdown) /\ WF_vars(MetricsShutdown)
    /\ WF_vars(GrpcDrained) /\ WF_vars(MainExit)

\* the RPC surface: workers register and deregister, SaveCheckpoint calls
\* (unary and streamed) pass the handlers' checks before they reach Save
NextApi ==
    \/ \E r \in {1}, id \in WorkerKeys, metadata \in {"l1"} :
           RegisterCheck(r, id, metadata)
    \/ \E r \in {1} : RegisterInsert(r)
    \/ \E id \in WorkerKeys : Deregister(id)
    \/ \E id \in WorkerKeys, data \in Payloads, k \in RequestKeys :
           save_checkpoint(1, id, data, k)
    \/ \E messages \in Streams : save_checkpoint_stream(1, messages)
    \/ SaveProgress(1, {0})

InitApi == Init /\ path_prefix = None /\ max_attempts = 2

SpecApi == InitApi /\ [][NextApi]_vars

(******************************* claims ************************************)
Done(s) == saves[s].pc = "done"
Began(s) == saves[s].pc = "idle" /\ saves'[s].pc # "idle"
UploadCalled(s) == upload_calls'[s] = upload_calls[s] + 1
UploadSucceeded(s) == \E u \in uploaded' \ uploaded : u.id = checkpoint_id(s)

\* C1: a Save whose idempotency key is bound to a checkpoint id whose record
\* is present returns that record unchanged (status COMPLETED), whatever its
\* payload, calls no upload and inserts no record.
C1_IdempotentReplay ==
    [][\A s \in SaveIds, k \in IdempotencyKeys :
          ( /\ Began(s)
            /\ saves'[s].idempotency_key = Some(k)
            /\ k \in DOMAIN idempotency_keys
            /\ idempotency_keys[k] \in DOMAIN checkpoints )
          => /\ saves'[s].pc = "done"
             /\ saves'[s].result = "Ok"
             /\ saves'[s].checkpoint = checkpoints[idempotency_keys[k]]
             /\ saves'[s].checkpoint.id = idempotency_keys[k]
             /\ saves'[s].checkpoint.status = "COMPLETED"
             /\ checkpoints' = checkpoints
             /\ objects' = objects
             /\ saves'[s].attempt = 0
             /\ uploaded' = uploaded
             /\ idempotency_keys' = idempotency_keys]_vars

\* C1 witness: a Save returned the bound checkpoint although its own payload
\* differs from the one the checkpoint was made of.
C1_Witness ==
    \E s \in SaveIds :
        /\ Done(s) /\ saves[s].hit
        /\ saves[s].checkpoint.checksum # compute_sha256(saves[s].data)

\* C2: once an idempotency key is bound to a checkpoint id, no step changes
\* or removes the id it maps to.
C2_BindingImmutable ==
    [][\A k \in DOMAIN idempotency_keys :
          k \in DOMAIN idempotency_keys' /\ idempotency_keys'[k] = idempotency_keys[k]]_vars

\* C3: for every COMPLETED checkpoint the key GetData recovers from
\* storage_path and hands to the adapter's download addresses the very
\* object that Save uploaded (so Save then GetData returns the payload).
C3_RoundTrip ==
    \A id \in DOMAIN checkpoints :
        checkpoints[id].status = "COMPLETED" =>
            LET key == key_from_path(checkpoints[id].storage_path)
            IN  /\ key # None
                /\ \E u \in uploaded :
                       /\ u.id = id
                       /\ full_key(key[1]) = u.object_key
                       /\ compute_sha256(u.data) = checkpoints[id].checksum
                       /\ Len(u.data) = checkpoints[id].size_bytes

\* C4: GetData returns bytes only when they are the downloaded bytes and
\* their digest equals the recorded checksum; downloaded bytes with another
\* digest give InvalidData (Internal on GetCheckpoint) and are not returned.
C4_VerifiedRead ==
    /\ get_result.kind = "Ok" =>
           /\ get_result.data # None
           /\ get_result.data = get_result.downloaded
           /\ compute_sha256(get_result.data[1]) = get_result.checksum[1]
    /\ ( /\ get_result.downloaded # None
         /\ compute_sha256(get_result.downloaded[1]) # get_result.checksum[1] )
       => /\ get_result.kind = "InvalidData"
          /\ get_result.data = None
          /\ get_checkpoint_status(get_result.kind) = "Internal"

\* C4 witness: a GetData downloaded a blob that was overwritten out of band
\* and answered InvalidData.
C4_Witness ==
    /\ get_result.kind = "InvalidData"
    /\ get_result.downloaded # None
    /\ \E u \in uploaded :
           u.id = get_result.id /\ u.data # get_result.downloaded[1]

\* C5: when the retry loop ends in permanent failure, the record this Save
\* inserted has status FAILED afterwards.
C5_FailedRecord ==
    \A s \in SaveIds :
        ( /\ Done(s) /\ saves[s].result = "UploadFailed"
          /\ checkpoint_id(s) \in DOMAIN checkpoints )
        => checkpoints[checkpoint_id(s)].status = "FAILED"

C8_NoPartialSuccess ==
    \A s \in SaveIds :
        Done(s) =>
            IF saves[s].result = "Ok"
            THEN LET cp == saves[s].checkpoint
                 IN  /\ cp.status = "COMPLETED"
                     /\ cp.storage_path # <<>>
                     /\ \E u \in uploaded :
                            /\ u.id = cp.id
                            /\ u.key = storage_key(cp.worker_id, cp.id)
                            /\ u.uri = cp.storage_path
                            /\ compute_sha256(u.data) = cp.checksum
                            /\ Len(u.data) = cp.size_bytes
            ELSE /\ checkpoint_id(s) \in DOMAIN checkpoints
                        => checkpoints[checkpoint_id(s)].status # "COMPLETED"
                 /\ \A k \in DOMAIN idempotency_keys :
                        idempotency_keys[k] # checkpoint_id(s)

\* C8 witness: one Save returned a checkpoint and another returned an error.
C8_Witness ==
    \E s, t \in SaveIds :
        /\ Done(s) /\ saves[s].result = "Ok" /\ ~saves[s].hit
        /\ Done(t) /\ saves[t].result = "UploadFailed"

\* C9: a Save whose idempotency key is bound to a checkpoint id whose record
\* was removed returns IdempotentDuplicate (AlreadyExists on the RPC), calls
\* no upload and creates no record.
C9_StaleBinding ==
    [][\A s \in SaveIds, k \in IdempotencyKeys :
          ( /\ Began(s)
            /\ saves'[s].idempotency_key = Some(k)
            /\ k \in DOMAIN idempotency_keys
            /\ idempotency_keys[k] \notin DOMAIN checkpoints )
          => /\ saves'[s].pc = "done"
             /\ saves'[s].result = "IdempotentDuplicate"
             /\ save_checkpoint_status(saves'[s].result) = "AlreadyExists"
             /\ checkpoints' = checkpoints]_vars

\* C10: after Delete(id) returned success, Get(id) returns none (so a later
\* Delete(id) returns NotFound) in every later state.
C10_DeletedStaysDeleted ==
    \A id \in deleted_ok : id \notin DOMAIN checkpoints

\* C11: Delete removes the record before it calls the adapter's delete: while
\* the adapter call is pending the record is absent; a failed adapter call
\* returns the storage error, leaves the record absent and the blob in place;
\* the removal lowers Count by one and does not touch the store; Delete of an
\* unknown id returns NotFound and changes neither the records nor the store.
C11_DeleteRecordFirst ==
    /\ [](\A d \in deleting : d.id \notin DOMAIN checkpoints)
    /\ [][/\ \A id \in CheckpointIds :
                (id \in DOMAIN checkpoints /\ id \notin DOMAIN checkpoints')
                => /\ Cardinality(DOMAIN checkpoints') =
                          Cardinality(DOMAIN checkpoints) - 1
                   /\ objects' = objects
          /\ delete_result' # delete_result =>
                LET id == delete_result'.id
                IN  /\ delete_result'.kind = "StorageError" =>
                          /\ \E d \in deleting \ deleting' : d.id = id
                          /\ id \notin DOMAIN checkpoints'
                          /\ checkpoints' = checkpoints
                          /\ objects' = objects
                    /\ delete_result'.kind = "NotFound" =>
                          /\ id \notin DOMAIN checkpoints
                          /\ checkpoints' = checkpoints
                          /\ objects' = objects
                          /\ deleting' = deleting
                    /\ delete_result'.kind = "Ok" =>
                          \/ id \in DOMAIN checkpoints
                          \/ \E d \in deleting \ deleting' : d.id = id
                    /\ id \notin DOMAIN checkpoints /\ deleting' = deleting
                          => delete_result'.kind = "NotFound"]_vars

\* C11 witness: the adapter's delete failed; Delete returned the storage
\* error, the record is gone and the blob is still in the store.
C11_Witness ==
    /\ delete_result.kind = "StorageError"
    /\ delete_result.id \notin DOMAIN checkpoints
    /\ \E u \in uploaded :
           u.id = delete_result.id /\ u.object_key \in DOMAIN objects

\* C12: a Save begins only for a worker that is registered when the handler
\* checks; a SaveCheckpoint (unary or streamed) for an unregistered worker is
\* answered FailedPrecondition and inserts no record, makes no upload call
\* and creates no binding.
C12_UnregisteredWorker ==
    [][/\ \A s \in SaveIds : Began(s) => saves'[s].worker_id \in DOMAIN workers
       /\ (rpc_result' # rpc_result /\ rpc_result'.status = "FailedPrecondition")
             => /\ rpc_result'.worker_id \notin DOMAIN workers
                /\ checkpoints' = checkpoints
                /\ idempotency_keys' = idempotency_keys
                /\ objects' = objects
                /\ upload_calls' = upload_calls
                /\ saves' = saves
       /\ rpc_result' # rpc_result
             => \/ rpc_result'.status = "FailedPrecondition"
                \/ /\ rpc_result'.status = "InvalidArgument"
                   /\ rpc_result'.rpc = "save_checkpoint_stream"]_vars

\* C12 witness: with one worker registered and a checkpoint saved for it, a
\* streamed SaveCheckpoint for another, unregistered worker was turned away.
C12_Witness ==
    /\ rpc_result.rpc = "save_checkpoint_stream"
    /\ rpc_result.status = "FailedPrecondition"
    /\ rpc_result.worker_id \notin DOMAIN workers
    /\ \E s \in SaveIds :
           Done(s) /\ saves[s].result = "Ok" /\ saves[s].worker_id \in DOMAIN workers

RegistryReturned(op) == worker_result'.n # worker_result.n /\ worker_result'.op = op

\* C13: a Register that finds its id present returns AlreadyExists and leaves
\* the registry as it is (the record with its labels, status, registered_at
\* and last_heartbeat, and the count); a Register goes on to its insert only
\* for an id that is absent.
C13_RegisterDuplicate ==
    [][/\ RegistryReturned("register") =>
             LET id == worker_result'.id
             IN  /\ worker_result'.kind = "AlreadyExists" =>
                       /\ id \in DOMAIN workers
                       /\ workers' = workers
                       /\ Cardinality(DOMAIN workers') = Cardinality(DOMAIN workers)
                       /\ register_worker_status(worker_result'.kind) = "AlreadyExists"
                 /\ (id \in DOMAIN workers /\ registering' = registering)
                       => worker_result'.kind = "AlreadyExists"
       /\ \A r \in RegisterCalls :
             (registering[r] = None /\ registering'[r] # None)
             => registering'[r][1].id \notin DOMAIN workers]_vars

\* C13 witness: a second Register, with other labels, of a worker that has
\* meanwhile reported DRAINING was answered AlreadyExists; the record still
\* has its first labels, its status and its heartbeat time.
C13_Witness ==
    /\ worker_result.op = "register" /\ worker_result.kind = "AlreadyExists"
    /\ worker_result.id \in DOMAIN workers
    /\ LET w == workers[worker_result.id]
       IN  /\ w.metadata # worker_result.arg
           /\ w.status = "DRAINING"
           /\ w.last_heartbeat > w.registered_at

\* C14: a RegisterWorker with an empty worker_id is answered InvalidArgument
\* (InvalidWorkerId at the registry).
C14_EmptyIdInvalidArgument ==
    (worker_result.op = "register" /\ worker_result.id = "")
    => /\ worker_result.kind = "InvalidWorkerId"
       /\ worker_result.status = "InvalidArgument"

\* C15: a Register that returns success has inserted, for its non-empty and
\* so far absent id, one record with its labels, status ACTIVE and
\* registered_at = last_heartbeat; the id exists afterwards and no other
\* record has changed.
C15_RegisterCreates ==
    [][(RegistryReturned("register") /\ worker_result'.kind = "Ok") =>
          LET id == worker_result'.id
          IN  /\ id # ""
              /\ id \notin DOMAIN workers
              /\ DOMAIN workers' = DOMAIN workers \cup {id}
              /\ workers'[id].id = id
              /\ workers'[id].metadata = worker_result'.arg
              /\ workers'[id].status = "ACTIVE"
              /\ workers'[id].registered_at = workers'[id].last_heartbeat
              /\ workers'[id].registered_at <= now
              /\ \A k \in DOMAIN workers : workers'[k] = workers[k]]_vars

\* C15 witness: a second worker was registered, later than the first, which
\* is no longer ACTIVE.
C15_Witness ==
    /\ worker_result.op = "register" /\ worker_result.kind = "Ok"
    /\ worker_result.id \in DOMAIN workers
    /\ workers[worker_result.id].registered_at > 0
    /\ \E k \in DOMAIN workers :
           k # worker_result.id /\ workers[k].status # "ACTIVE"

\* C16: for every worker id, Exists(id) iff Get(id) returns a record iff id
\* appears in List(None); TotalCount() is the number of records in List(None).
C16_ViewsAgree ==
    /\ \A id \in RequestWorkerIds :
           /\ exists(id) <=> (get(id) # None)
           /\ get(id) # None => get(id)[1].id = id
           /\ (get(id) # None) <=> (\E w \in list(None) : w.id = id)
    /\ total_count = Cardinality(list(None))

\* C16 witness: two workers are registered and one of them is not ACTIVE.
C16_Witness ==
    /\ Cardinality(list(None)) = 2
    /\ Cardinality(list(Some("ACTIVE"))) = 1

\* C17: every worker in the registry has last_heartbeat >= registered_at, and
\* so has every record a Register is about to insert.
C17_HeartbeatAfterRegistration ==
    /\ \A id \in DOMAIN workers :
           workers[id].last_heartbeat >= workers[id].registered_at
    /\ \A r \in Registering :
           registering[r][1].last_heartbeat >= registering[r][1].registered_at

\* C17 witness: a worker registered after time 0 has sent a heartbeat
\* later still, next to a worker that a sweep has set to UNHEALTHY.
C17_Witness ==
    \E id, k \in DOMAIN workers :
        /\ workers[id].registered_at > 0
        /\ workers[id].last_heartbeat > workers[id].registered_at
        /\ workers[k].status = "UNHEALTHY"

\* C18: a Heartbeat on a present worker sets last_heartbeat to the current
\* time, which is not earlier than the old value; it sets the status to the
\* one it carries unless that is UNSPECIFIED, and then keeps the status (a
\* value outside the enumeration counts as ACTIVE); registered_at, the labels
\* and the other workers stay. On an absent id it returns NotFound and
\* changes nothing.
C18_HeartbeatEffect ==
    [][RegistryReturned("heartbeat") =>
          LET id == worker_result'.id
              s  == worker_result'.arg
          IN  IF id \in DOMAIN workers
              THEN /\ worker_result'.kind = "Ok"
                   /\ DOMAIN workers' = DOMAIN workers
                   /\ workers'[id].last_heartbeat = now
                   /\ workers'[id].last_heartbeat >= workers[id].last_heartbeat
                   /\ s \in WorkerStatuses \ {"UNSPECIFIED"}
                         => workers'[id].status = s
                   /\ s = "UNSPECIFIED" => workers'[id].status = workers[id].status
                   /\ s \notin WorkerStatuses => workers'[id].status = "ACTIVE"
                   /\ workers'[id].registered_at = workers[id].registered_at
                   /\ workers'[id].metadata = workers[id].metadata
                   /\ workers'[id].id = id
                   /\ \A k \in DOMAIN workers \ {id} : workers'[k] = workers[k]
              ELSE /\ worker_result'.kind = "NotFound"
                   /\ worker_rpc_status(worker_result'.kind) = "NotFound"
                   /\ workers' = workers]_vars

\* C18 witness: a Heartbeat without a status has refreshed a worker that had
\* reported DRAINING before, next to another registered worker.
C18_Witness ==
    /\ worker_result.op = "heartbeat" /\ worker_result.kind = "Ok"
    /\ worker_result.arg = "UNSPECIFIED"
    /\ worker_result.id \in DOMAIN workers
    /\ workers[worker_result.id].status = "DRAINING"
    /\ workers[worker_result.id].last_heartbeat > workers[worker_result.id].registered_at
    /\ Cardinality(DOMAIN workers) = 2

\* the worker after the Heartbeat request with status field s served at time t
AfterHeartbeat(worker, s, t) == HeartbeatWorker(worker, heartbeat_status(s), t)

\* C19: for every registered worker and every status field, the same
\* Heartbeat served twice (now or later, the second not before the first)
\* leaves the status the first one gave, and last_heartbeat never decreases;
\* and when a Heartbeat follows the same Heartbeat within the heartbeat
\* timeout, it leaves the worker's status as it found it.
C19_HeartbeatIdempotent ==
    /\ [](\A id \in DOMAIN workers, s \in RequestStatuses :
            \A t1 \in {now, now + Tick}, t2 \in {now, now + Tick, now + 2 * Tick} :
                t1 <= t2 =>
                    LET once  == AfterHeartbeat(workers[id], s, t1)
                        twice == AfterHeartbeat(once, s, t2)
                    IN  /\ twice.status = once.status
                        /\ once.last_heartbeat >= workers[id].last_heartbeat
                        /\ twice.last_heartbeat >= once.last_heartbeat
                        /\ [twice EXCEPT !.last_heartbeat = 0] =
                           [once EXCEPT !.last_heartbeat = 0])
    /\ [][( /\ RegistryReturned("heartbeat")
            /\ worker_result.op = "heartbeat"
            /\ worker_result.kind = "Ok" /\ worker_result'.kind = "Ok"
            /\ worker_result.id = worker_result'.id
            /\ worker_result.arg = worker_result'.arg
            /\ now - workers[worker_result.id].last_heartbeat <= HeartbeatTimeoutSecs )
          => LET id == worker_result.id
             IN  /\ workers'[id].status = workers[id].status
                 /\ workers'[id].last_heartbeat >= workers[id].last_heartbeat
                 /\ [workers'[id] EXCEPT !.last_heartbeat = 0] =
                    [workers[id] EXCEPT !.last_heartbeat = 0]]_vars

\* C19 witness: a Heartbeat carrying STOPPED was served for the one registered
\* worker as the third call or later, after its registration time.
C19_Witness ==
    /\ worker_result.n >= 3
    /\ worker_result.op = "heartbeat" /\ worker_result.kind = "Ok"
    /\ worker_result.id \in DOMAIN workers
    /\ workers[worker_result.id].status = worker_result.arg
    /\ workers[worker_result.id].status = "STOPPED"
    /\ workers[worker_result.id].last_heartbeat > workers[worker_result.id].registered_at
    /\ DOMAIN workers = {worker_result.id}
    /\ now = Tick

\* C20: a Deregister of a present worker removes that record and no other in
\* one step and returns success; of an absent id it returns NotFound and
\* changes nothing; a Deregister that follows a successful Deregister of the
\* same id returns NotFound.
C20_DeregisterOnce ==
    [][RegistryReturned("deregister") =>
          LET id == worker_result'.id
          IN  /\ IF id \in DOMAIN workers
                 THEN /\ worker_result'.kind = "Ok"
                      /\ DOMAIN workers' = DOMAIN workers \ {id}
                      /\ \A k \in DOMAIN workers' : workers'[k] = workers[k]
                 ELSE /\ worker_result'.kind = "NotFound"
                      /\ worker_rpc_status(worker_result'.kind) = "NotFound"
                      /\ workers' = workers
              /\ ( /\ worker_result.op = "deregister"
                    /\ worker_result.kind = "Ok"
                    /\ worker_result.id = id )
                 => worker_result'.kind = "NotFound"]_vars

\* C20 witness: of two registered workers one was deregistered; a second
\* Deregister of it found nothing, and the other worker is still there.
C20_Witness ==
    /\ worker_result.n = 4
    /\ worker_result.op = "deregister" /\ worker_result.kind = "NotFound"
    /\ worker_result.id \notin DOMAIN workers
    /\ Cardinality(DOMAIN workers) = 1

\* C28: two Saves with the same idempotency key that both miss the binding
\* upload under distinct checkpoint ids to distinct storage keys and may both
\* return success; once both have returned (and no third Save uses the key),
\* the key is bound to the id of one of the two, and the bound record, while
\* no Delete has removed it, is COMPLETED under that id.
C28_ConcurrentSameKey ==
    \A s \in SaveIds, t \in SaveIds, k \in IdempotencyKeys :
        ( /\ s # t
          /\ Done(s) /\ Done(t)
          /\ saves[s].result = "Ok" /\ saves[t].result = "Ok"
          /\ ~saves[s].hit /\ ~saves[t].hit
          /\ saves[s].idempotency_key = Some(k)
          /\ saves[t].idempotency_key = Some(k)
          /\ \A u \in SaveIds \ {s, t} : saves[u].idempotency_key # Some(k) )
        => /\ saves[s].checkpoint.id # saves[t].checkpoint.id
           /\ saves[s].checkpoint.storage_path # saves[t].checkpoint.storage_path
           /\ \E u \in uploaded, v \in uploaded :
                 /\ u.id = saves[s].checkpoint.id
                 /\ v.id = saves[t].checkpoint.id
                 /\ u.object_key # v.object_key
           /\ k \in DOMAIN idempotency_keys
           /\ idempotency_keys[k] \in {saves[s].checkpoint.id, saves[t].checkpoint.id}
           /\ idempotency_keys[k] \in DOMAIN checkpoints
                 => /\ checkpoints[idempotency_keys[k]].status = "COMPLETED"
                    /\ checkpoints[idempotency_keys[k]].id = idempotency_keys[k]

\* C28 witness: both Saves of one key uploaded and returned success, both
\* records are there and COMPLETED, and the key is bound to the second.
C28_Witness ==
    /\ Done(1) /\ Done(2)
    /\ saves[1].result = "Ok" /\ saves[2].result = "Ok"
    /\ ~saves[1].hit /\ ~saves[2].hit
    /\ saves[1].idempotency_key = Some("k1")
    /\ saves[2].idempotency_key = Some("k1")
    /\ DOMAIN checkpoints = CheckpointIds
    /\ \A id \in CheckpointIds : checkpoints[id].status = "COMPLETED"
    /\ idempotency_keys["k1"] = checkpoint_id(2)

\* C29: a binding whose record is present points at a COMPLETED record,
\* never at one that is UPLOADING or FAILED.
C29_BindingCompleted ==
    \A k \in DOMAIN idempotency_keys :
        idempotency_keys[k] \in DOMAIN checkpoints
        => checkpoints[idempotency_keys[k]].status = "COMPLETED"

\* C29 witness: a key is bound to a present record while the record of
\* another Save of the same key is still UPLOADING.
C29_Witness ==
    \E k \in DOMAIN idempotency_keys, id \in DOMAIN checkpoints :
        /\ idempotency_keys[k] \in DOMAIN checkpoints
        /\ id # idempotency_keys[k]
        /\ checkpoints[id].status = "UPLOADING"
        /\ \E s \in SaveIds :
               checkpoint_id(s) = id /\ saves[s].idempotency_key = Some(k)

\* C30: a checkpoint record has a non-empty storage_path exactly when its
\* status is COMPLETED.
C30_PathIffCompleted ==
    \A id \in DOMAIN checkpoints :
        checkpoints[id].storage_path # <<>> <=> checkpoints[id].status = "COMPLETED"

\* C30 witness: one record is COMPLETED with the URI of its upload, the
\* record of a Save whose upload failed is UPLOADING with an empty path.
C30_Witness ==
    \E s \in SaveIds, t \in SaveIds :
        /\ checkpoint_id(s) \in DOMAIN checkpoints
        /\ checkpoints[checkpoint_id(s)].status = "COMPLETED"
        /\ checkpoints[checkpoint_id(s)].storage_path =
               upload_uri(storage_key(saves[s].worker_id, checkpoint_id(s)))
        /\ Done(t) /\ saves[t].result = "UploadFailed"
        /\ checkpoint_id(t) \in DOMAIN checkpoints
        /\ checkpoints[checkpoint_id(t)].status = "UPLOADING"
        /\ checkpoints[checkpoint_id(t)].storage_path = <<>>

\* C24: a worker goes from ACTIVE to UNHEALTHY only in a step of the sweeper
\* (no registry call returns in that step), and from ACTIVE to DRAINING or
\* STOPPED only in a Heartbeat for that worker that carries that status.
C24_TransitionOwners ==
    [][\A id \in DOMAIN workers \cap DOMAIN workers' :
          workers[id].status = "ACTIVE" =>
              /\ workers'[id].status = "UNHEALTHY"
                    => worker_result'.n = worker_result.n
              /\ workers'[id].status \in {"DRAINING", "STOPPED"}
                    => /\ RegistryReturned("heartbeat")
                       /\ worker_result'.id = id
                       /\ worker_result'.arg = workers'[id].status]_vars

\* a step in which the monitor took a tick and swept
Sweep == monitor'.next_tick # monitor.next_tick

\* an ACTIVE worker whose last heartbeat is more than the timeout ago
Lapsed(id) ==
    /\ id \in DOMAIN workers
    /\ workers[id].status = "ACTIVE"
    /\ now - workers[id].last_heartbeat > HeartbeatTimeoutSecs

\* C21: one sweep sets to UNHEALTHY exactly the ACTIVE workers whose last
\* heartbeat is strictly more than heartbeat_timeout before the time the
\* sweep sampled; every other worker (elapsed time equal to the timeout, or
\* status UNHEALTHY, DRAINING or STOPPED) keeps its record, no last_heartbeat,
\* registered_at or labels change, and no worker is added or removed.
C21_SweepEffect ==
    [][Sweep =>
          /\ DOMAIN workers' = DOMAIN workers
          /\ \A id \in DOMAIN workers :
                /\ workers'[id].status =
                       IF Lapsed(id) THEN "UNHEALTHY" ELSE workers[id].status
                /\ workers'[id].last_heartbeat = workers[id].last_heartbeat
                /\ workers'[id].registered_at = workers[id].registered_at
                /\ workers'[id].metadata = workers[id].metadata
                /\ workers'[id].id = workers[id].id]_vars

\* C21 witness: the sweep of the tick at this time has run; it found one
\* worker lapsed and demoted it, and left ACTIVE a worker whose elapsed time
\* is exactly the timeout.
C21_Witness ==
    /\ monitor.next_tick > now
    /\ \E id \in DOMAIN workers, other \in DOMAIN workers :
           /\ workers[id].status = "UNHEALTHY"
           /\ now - workers[id].last_heartbeat > HeartbeatTimeoutSecs
           /\ workers[other].status = "ACTIVE"
           /\ now - workers[other].last_heartbeat = HeartbeatTimeoutSecs

\* the last value the clock takes; the monitor's next tick lies within it
ClockEnd == (MaxTime \div Tick) * Tick
TickComes == monitor.pc = "running" /\ monitor.next_tick <= ClockEnd

\* C22: while the monitor runs and no shutdown is signalled, an ACTIVE worker
\* whose last heartbeat is more than heartbeat_timeout ago does not stay so
\* (as long as the clock reaches the monitor's next tick): it is set to
\* UNHEALTHY unless a heartbeat, a deregistration or the shutdown comes
\* first; and the first tick the monitor takes after the lapse demotes it.
C22_LapseDetected ==
    /\ \A id \in WorkerKeys :
          (Lapsed(id) /\ ~shutdown /\ TickComes) ~>
              \/ id \in DOMAIN workers /\ workers[id].status = "UNHEALTHY"
              \/ id \notin DOMAIN workers
              \/ id \in DOMAIN workers /\ workers[id].status # "ACTIVE"
              \/ id \in DOMAIN workers
                 /\ now - workers[id].last_heartbeat <= HeartbeatTimeoutSecs
              \/ shutdown
    /\ [][Sweep => \A id \in DOMAIN workers :
                       Lapsed(id) => /\ id \in DOMAIN workers'
                                     /\ workers'[id].status = "UNHEALTHY"]_vars

\* C22 witness: no shutdown was signalled, the monitor runs, and a worker that
\* got no heartbeat for more than the timeout is UNHEALTHY.
C22_Witness ==
    /\ ~shutdown /\ monitor.pc = "running"
    /\ \E id \in DOMAIN workers :
           /\ workers[id].status = "UNHEALTHY"
           /\ workers[id].last_heartbeat = workers[id].registered_at
           /\ now - workers[id].last_heartbeat > HeartbeatTimeoutSecs

\* C23: a sweep never demotes an ACTIVE worker whose last heartbeat is less
\* than heartbeat_timeout before the sweep, however sweeps and heartbeats
\* interleave: a worker whose heartbeats are kept less than the timeout apart
\* is in that case at every sweep.
C23_FreshNeverDemoted ==
    [][Sweep => \A id \in DOMAIN workers :
                   ( /\ workers[id].status = "ACTIVE"
                     /\ now - workers[id].last_heartbeat < HeartbeatTimeoutSecs )
                   => /\ id \in DOMAIN workers'
                      /\ workers'[id].status = "ACTIVE"]_vars

\* C23 witness: a worker registered more than the timeout ago, whose last
\* heartbeat is less than the timeout old, is ACTIVE after the sweep of the
\* current tick.
C23_Witness ==
    /\ monitor.next_tick > now
    /\ \E id \in DOMAIN workers :
           /\ workers[id].status = "ACTIVE"
           /\ now - workers[id].registered_at > HeartbeatTimeoutSecs
           /\ workers[id].last_heartbeat > workers[id].registered_at
           /\ workers[id].last_heartbeat < now
           /\ now - workers[id].last_heartbeat < HeartbeatTimeoutSecs

\* C25: once the shutdown signal has been raised the monitor starts no sweep,
\* also when a tick is due at the time of the signal.
C25_NoSweepAfterSignal ==
    [][shutdown => ~Sweep]_vars

\* the other half of C25: once the signal has been raised, the monitor exits
C25_MonitorExits == shutdown ~> monitor.pc = "exited"

\* the Chunk bytes of a message sequence in arrival order, built from its end
RECURSIVE ChunksInOrder(_)
ChunksInOrder(messages) ==
    IF messages = <<>> THEN <<>>
    ELSE LET n == Len(messages)
         IN  ChunksInOrder(SubSeq(messages, 1, n - 1))
             \o (IF messages[n].type = "Chunk" THEN messages[n].bytes ELSE <<>>)

NoHeader(messages) == \A i \in 1..Len(messages) : messages[i].type # "Header"

C26_GracefulShutdown ==
    /\ [][shutdown => server'.inflight <= server.inflight]_vars
    /\ [](server.pc # "serving" <=> shutdown)
    /\ [](server.pc \in {"joining", "exited"} => server.inflight = 0)
    /\ [](server.pc = "exited"
            => /\ server.inflight = 0
               /\ server.metrics = "exited"
               /\ monitor.pc = "exited")
    /\ shutdown ~> (server.metrics = "exited" /\ monitor.pc = "exited")
    /\ shutdown ~> server.pc = "exited"

\* C26 witness: the signal has arrived with RPCs in flight; the monitor and
\* the metrics server have ended, main still waits for the RPCs.
C26_Witness ==
    /\ shutdown
    /\ server.pc = "draining" /\ server.inflight = MaxInflight
    /\ server.metrics = "exited" /\ monitor.pc = "exited"
    /\ monitor.next_tick > 0

\* C31: the status of a checkpoint id only moves forward: a record that is
\* COMPLETED (or FAILED) keeps that status as long as it is there, and a
\* record appears as UPLOADING only with the start of a Save, for an id that
\* has no record.
C31_StatusForward ==
    [][\A id \in CheckpointIds :
          /\ (id \in DOMAIN checkpoints /\ id \in DOMAIN checkpoints')
                => /\ checkpoints[id].status \in {"COMPLETED", "FAILED"}
                         => checkpoints'[id].status = checkpoints[id].status
                   /\ checkpoints'[id].status \in {"UPLOADING", "COMPLETED", "FAILED"}
          /\ ( /\ id \in DOMAIN checkpoints'
               /\ checkpoints'[id].status = "UPLOADING"
               /\ (id \notin DOMAIN checkpoints \/ checkpoints[id] # checkpoints'[id]) )
                => /\ id \notin DOMAIN checkpoints
                   /\ \E s \in SaveIds : Began(s)]_vars

\* C31 witness: one Save has returned and its record is COMPLETED, while the
\* record of another Save, which is retrying its upload, is UPLOADING.
C31_Witness ==
    \E s \in SaveIds, t \in SaveIds :
        /\ Done(s) /\ saves[s].result = "Ok" /\ ~saves[s].hit
        /\ saves[s].checkpoint.id \in DOMAIN checkpoints
        /\ checkpoints[saves[s].checkpoint.id].status = "COMPLETED"
        /\ saves[t].pc = "backoff"
        /\ \E id \in DOMAIN checkpoints :
               id # saves[s].checkpoint.id /\ checkpoints[id].status = "UPLOADING"

\* a prefix without its trailing "/" tokens
TrimmedPrefix(p) ==
    LET keep == {i \in 1..Len(p) : p[i] # "/"}
        n    == IF keep = {} THEN 0 ELSE CHOOSE i \in keep : \A j \in keep : j <= i
    IN  SubSeq(p, 1, n)

\* the object key the store is to see for an external key
NamespacedKey(key) ==
    IF path_prefix = None THEN key
    ELSE TrimmedPrefix(path_prefix[1]) \o <<"/">> \o key

\* C32: every upload presents to the store the external key unchanged when no
\* path_prefix is configured, and otherwise the prefix without its trailing
\* "/", then "/", then the key; the URI it returns is s3://<bucket>/ followed
\* by that rewritten key.
C32_KeyNamespacing ==
    \A u \in uploaded :
        /\ u.object_key = NamespacedKey(u.key)
        /\ u.uri = <<"s3:", "/", "/", Bucket, "/">> \o NamespacedKey(u.key)
        /\ path_prefix = None => u.object_key = u.key
        /\ path_prefix \in {Some(<<"p">>), Some(<<"p", "/">>)}
              => u.object_key = <<"p", "/">> \o u.key

\* C32 witness: with the prefix "p/" an upload went to p/checkpoints/...
C32_Witness ==
    /\ path_prefix = Some(<<"p", "/">>)
    /\ \E u \in uploaded :
           /\ u.object_key \in DOMAIN objects
           /\ SubSeq(u.object_key, 1, 3) = <<"p", "/", "checkpoints">>
           /\ SubSeq(u.uri, 4, 7) = <<Bucket, "/", "p", "/">>

\* a Save that ended with UploadFailed
Failed(s) == Done(s) /\ saves[s].result = "UploadFailed"

\* C36: a Save that ends with UploadFailed leaves the bindings as they are;
\* a key is only ever bound to a checkpoint whose upload succeeded; and a
\* Save with the key of a failed Save, the key still unbound, starts a fresh
\* upload under a new checkpoint id.
C36_FailedSaveBindsNothing ==
    /\ [][\A s \in SaveIds :
             (~Done(s) /\ saves'[s].pc = "done" /\ saves'[s].result = "UploadFailed")
                => idempotency_keys' = idempotency_keys]_vars
    /\ [](\A k \in DOMAIN idempotency_keys :
             /\ \E u \in uploaded : u.id = idempotency_keys[k]
             /\ \A s \in SaveIds :
                   (Failed(s) /\ saves[s].idempotency_key = Some(k))
                      => \E t \in SaveIds \ {s} :
                             /\ saves[t].idempotency_key = Some(k)
                             /\ \E u \in uploaded :
                                   u.id = idempotency_keys[k] /\ u.data = saves[t].data)
    /\ [][\A s \in SaveIds, t \in SaveIds, k \in IdempotencyKeys :
             ( /\ Failed(s) /\ saves[s].idempotency_key = Some(k)
               /\ Began(t) /\ saves'[t].idempotency_key = Some(k)
               /\ k \notin DOMAIN idempotency_keys )
                => /\ saves'[t].pc = "upload" /\ ~saves'[t].hit
                   /\ Cardinality(DOMAIN checkpoints') =
                          Cardinality(DOMAIN checkpoints) + 1]_vars

\* C36 witness: the first Save of key k1 failed; the second Save of k1
\* uploaded under its own id and returned, and k1 is bound to that id.
C36_Witness ==
    /\ Failed(1) /\ saves[1].idempotency_key = Some("k1")
    /\ Done(2) /\ saves[2].result = "Ok" /\ ~saves[2].hit
    /\ saves[2].idempotency_key = Some("k1")
    /\ "k1" \in DOMAIN idempotency_keys
    /\ idempotency_keys["k1"] = saves[2].checkpoint.id
    /\ Cardinality(DOMAIN checkpoints) = 2

\* C37: GetData of an id without a record returns NotFound and of a record
\* with an empty storage_path returns InvalidData, in both cases without a
\* call of the adapter; a failed download is returned as the adapter's error
\* (not found stays not found); and no GetData changes a record, a binding or
\* the store.
C37_GetDataErrors ==
    [][get_result' # get_result =>
          LET id == get_result'.id
          IN  /\ checkpoints' = checkpoints
              /\ idempotency_keys' = idempotency_keys
              /\ objects' = objects
              /\ id \notin DOMAIN checkpoints
                    => /\ get_result'.kind = "NotFound"
                       /\ get_result'.object_key = None
                       /\ get_result'.downloaded = None
              /\ (id \in DOMAIN checkpoints /\ checkpoints[id].storage_path = <<>>)
                    => /\ get_result'.kind = "InvalidData"
                       /\ get_result'.object_key = None
                       /\ get_result'.downloaded = None
              /\ get_result'.kind = "NotFound" => id \notin DOMAIN checkpoints
              /\ get_result'.kind \in {"DownloadFailed", "ObjectNotFound"}
                    => /\ get_result'.object_key # None
                       /\ get_result'.data = None
                       /\ get_result'.downloaded = None
              /\ get_result'.kind = "ObjectNotFound"
                    => get_result'.object_key[1] \notin DOMAIN objects]_vars

\* C37 witness: a GetData of a checkpoint that is still UPLOADING returned
\* InvalidData and addressed no object.
C37_Witness ==
    /\ get_result.kind = "InvalidData"
    /\ get_result.object_key = None
    /\ get_result.id \in DOMAIN checkpoints
    /\ checkpoints[get_result.id].status = "UPLOADING"
    /\ checkpoints[get_result.id].storage_path = <<>>

\* C38: the step of a Delete that removes a record hands exactly one call to
\* the adapter's delete when the record's storage_path is an s3 URI with a
\* key, and none when it is empty: then the Delete returns success at once,
\* and the store is not touched by it; every adapter call pending is made
\* once, and only an adapter call removes an object.
C38_DeleteAdapterCalls ==
    [][/\ \A id \in CheckpointIds :
             (id \in DOMAIN checkpoints /\ id \notin DOMAIN checkpoints')
                => /\ objects' = objects
                   /\ IF checkpoints[id].storage_path = <<>>
                      THEN /\ deleting' = deleting
                           /\ delete_result' = [id |-> id, kind |-> "Ok"]
                      ELSE /\ checkpoints[id].status = "COMPLETED"
                           /\ \E d \in deleting' :
                                 /\ d.id = id
                                 /\ d \notin deleting
                                 /\ deleting' = deleting \cup {d}
       /\ deleting' # deleting
             => \/ \E id \in DOMAIN checkpoints : id \notin DOMAIN checkpoints'
                \/ \E d \in deleting : deleting' = deleting \ {d}
       /\ DOMAIN objects' # DOMAIN objects /\ DOMAIN objects' \subseteq DOMAIN objects
             => \E d \in deleting : deleting' = deleting \ {d}]_vars

\* C38 witness: a checkpoint was deleted with success while it was UPLOADING
\* and no adapter delete is pending; the upload that was in flight has since
\* stored its blob, which is still there.
C38_Witness ==
    /\ deleting = {}
    /\ \E id \in deleted_ok :
           /\ id \in DOMAIN checkpoints
           /\ checkpoints[id].status = "COMPLETED"
           /\ \E u \in uploaded : u.id = id /\ u.object_key \in DOMAIN objects

\* C39: for every COMPLETED checkpoint and every adapter configuration, the
\* object key the adapter addresses in the delete of a Delete call is the
\* object key it addressed in the upload of that checkpoint.
C39_DeleteAddressesUpload ==
    \A d \in deleting :
        \E u \in uploaded : u.id = d.id /\ full_key(d.key) = u.object_key

\* C35: an UNHEALTHY worker becomes ACTIVE, its record staying in place, only
\* in a Heartbeat for it that carries the status ACTIVE; a Heartbeat without a
\* status refreshes last_heartbeat and leaves it UNHEALTHY.
C35_UnhealthyUntilActive ==
    [][\A id \in DOMAIN workers \cap DOMAIN workers' :
          workers[id].status = "UNHEALTHY" =>
              /\ workers'[id].status = "ACTIVE"
                    => /\ RegistryReturned("heartbeat")
                       /\ worker_result'.id = id
                       /\ worker_result'.arg = "ACTIVE"
              /\ ( /\ RegistryReturned("heartbeat")
                   /\ worker_result'.id = id
                   /\ worker_result'.arg = "UNSPECIFIED" )
                    => /\ workers'[id].status = "UNHEALTHY"
                       /\ workers'[id].last_heartbeat = now]_vars

\* C33: a Register call returns success only if its insert found the worker
\* id absent (presence check and insert act as one step), so of two
\* concurrent Register calls for one absent id at most one succeeds and the
\* stored record is the successful call's.
C33_RegisterAtomic ==
    [][(RegistryReturned("register") /\ worker_result'.kind = "Ok")
          => worker_result'.id \notin DOMAIN workers]_vars

\* C40: the ACTIVE_WORKERS gauge equals the number of workers whose status is
\* ACTIVE, and is never below zero.
C40_GaugeIsActiveCount ==
    /\ ACTIVE_WORKERS = active_count
    /\ ACTIVE_WORKERS >= 0

\* C34: in every interleaving of an entry-by-entry sweep with Register,
\* Heartbeat and Deregister, a step of the sweep neither adds nor removes a
\* worker, leaves every last_heartbeat as it is, and changes a record only by
\* taking an ACTIVE worker whose latest heartbeat is more than the timeout
\* before the sweep's sampled time to UNHEALTHY; a Heartbeat that returns Ok
\* during or after a sweep sets last_heartbeat to now, and one carrying ACTIVE
\* leaves the worker ACTIVE.
C34_SweepTolerates ==
    /\ [][sweep' # sweep =>
            /\ DOMAIN workers' = DOMAIN workers
            /\ \A id \in DOMAIN workers :
                  /\ workers'[id].last_heartbeat = workers[id].last_heartbeat
                  /\ workers'[id] # workers[id] =>
                        /\ workers[id].status = "ACTIVE"
                        /\ workers'[id] = [workers[id] EXCEPT !.status = "UNHEALTHY"]
                        /\ sweep.at - workers[id].last_heartbeat > HeartbeatTimeoutSecs]_vars
    /\ [][(RegistryReturned("heartbeat") /\ worker_result'.kind = "Ok") =>
            LET id == worker_result'.id
            IN  /\ id \in DOMAIN workers'
                /\ workers'[id].last_heartbeat = now
                /\ worker_result'.arg = "ACTIVE" => workers'[id].status = "ACTIVE"]_vars

\* C34 witness: a sweep still under way has demoted "w", and a Heartbeat
\* carrying ACTIVE that came after the demotion has left "w" ACTIVE with
\* its fresh last_heartbeat.
C34_Witness ==
    /\ sweep.pc = "iterating" /\ sweep.todo # {}
    /\ "w" \in sweep.demoted
    /\ "w" \in DOMAIN workers
    /\ workers["w"].status = "ACTIVE"
    /\ workers["w"].last_heartbeat >= sweep.at
    /\ worker_result.op = "heartbeat" /\ worker_result.id = "w"
    /\ worker_result.arg = "ACTIVE" /\ worker_result.kind = "Ok"

====
